---- MODULE Spec2Model ----
(***************************************************************************)
(* The download/export subsystem of the Blog API: the two export views     *)
(* (historical-posts, my-posts), the DownloadLog ledger, the per-user      *)
(* cooldown on CustomUser, the query builder and the exporters.            *)
(*                                                                         *)
(* Time is the wall clock in seconds.  Posts are kept as a table that      *)
(* gives, for every combination of the attributes the queries read         *)
(* (author, is_public, status, category), the number of rows with those    *)
(* attributes: the queries of this subsystem only filter and count.        *)
(***************************************************************************)
EXTENDS Integers, Sequences, FiniteSets, TLC

VARIABLES
    clock,      \* timezone.now() / time.time(), in seconds
    ticks,      \* how often the clock has advanced
    users,      \* auth_user_custom rows: last_download, download_count
    posts,      \* BlogPost rows, counted per attribute combination
    churn,      \* how many posts other requests created or deleted
    logs,       \* DownloadLog rows by primary key
    nextLogId,  \* next primary key / request_id
    started,    \* how many requests were received
    req         \* per worker: the request being handled and its locals

vars == <<clock, ticks, users, posts, churn, logs, nextLogId, started, req>>

---------------------------------------------------------------------------
\* Bounds of the model.
MaxRequests == 2
MaxTicks == 3
MaxChurn == 2
MaxRaceTicks == 1

\* Program constants.
CooldownSeconds == 3600
RetryAfter == 3600
max_records == 10000

\* Null values of the nullable columns and of locals not yet assigned.
NoTime == -1
NoDate == 0
NoCategory == 0
NoLog == 0
NoCount == -1

Users == {"u1", "u2"}
Procs == {"p1", "p2"}
Workers == {"p1"}

\* The clock advances in steps of half the cooldown.
TickSteps == {1800}

---------------------------------------------------------------------------
\* blog.models

Statuses == {"draft", "published", "archived"}

\* Category rows: primary key |-> name (a string as a sequence of characters).
Categories == (1 :> <<"A", "b">>) @@ (2 :> <<"a", "b", "c">>) @@ (3 :> <<"X">>)

PostCategories == {NoCategory, 1, 2}

PostKinds ==
    [author : Users, is_public : BOOLEAN, status : Statuses,
     category : PostCategories]

Post(a, pub, st, c) ==
    [author |-> a, is_public |-> pub, status |-> st, category |-> c]

EmptyTable == [k \in PostKinds |-> 0]

RECURSIVE SumOver(_, _)
SumOver(S, f) ==
    IF S = {} THEN 0
    ELSE LET x == CHOOSE y \in S : TRUE IN f[x] + SumOver(S \ {x}, f)

\* Number of rows of a table of posts.
RecordCount(table) == SumOver({k \in PostKinds : table[k] > 0}, table)

---------------------------------------------------------------------------
\* Strings: case-insensitive substring match (name__icontains).

Lower(c) ==
    CASE c = "A" -> "a"
      [] c = "B" -> "b"
      [] c = "C" -> "c"
      [] c = "X" -> "x"
      [] c = "Z" -> "z"
      [] OTHER -> c

LowerStr(s) == [i \in 1..Len(s) |-> Lower(s[i])]

Contains(s, t) ==
    \E i \in 0..(Len(s) - Len(t)) :
        \A j \in 1..Len(t) : s[i + j] = t[j]

icontains(name, text) == Contains(LowerStr(name), LowerStr(text))

---------------------------------------------------------------------------
\* authentication.models.CustomUser

NewUser == [last_download |-> NoTime, download_count |-> 0]

\* can_download with the boundary second counted as elapsed.
can_download_at_boundary(user, now) ==
    IF user.last_download = NoTime THEN TRUE
    ELSE (now - user.last_download) >= CooldownSeconds

can_download(user, now) ==
    IF user.last_download = NoTime THEN TRUE
    ELSE (now - user.last_download) > CooldownSeconds

\* The in-memory user after increment_download_count; save(update_fields)
\* writes exactly these two columns.
increment_download_count(user, now) ==
    [user EXCEPT !.download_count = @ + 1, !.last_download = now]

---------------------------------------------------------------------------
\* downloads.models.DownloadLog

HISTORICAL_POSTS == "historical_posts"
USER_POSTS == "user_posts"

NoPayload ==
    [format |-> "absent", date_from |-> NoDate, date_to |-> NoDate,
     category |-> <<>>, include_private |-> FALSE]

NoLogRow ==
    [id |-> NoLog, request_id |-> NoLog, user |-> "", download_type |-> "",
     file_format |-> "", ip_address |-> "", user_agent |-> "",
     filters_applied |-> NoPayload, total_records |-> 0,
     file_size_bytes |-> 0, processing_time_seconds |-> 0,
     is_successful |-> FALSE, error_message |-> "",
     requested_at |-> NoTime, completed_at |-> NoTime]

\* DownloadLog.objects.create(...): the defaults of the model for the rest.
NewLog(id, user, type, fmt, ip, ua, filters, now) ==
    [NoLogRow EXCEPT !.id = id, !.request_id = id, !.user = user,
                     !.download_type = type, !.file_format = fmt,
                     !.ip_address = ip, !.user_agent = ua,
                     !.filters_applied = filters, !.requested_at = now]

\* mark_completed that blanks the user agent of the entry.
mark_completed_dropping_agent(log, total_records, file_size, processing_time, now) ==
    [log EXCEPT !.is_successful = TRUE,
                !.total_records = total_records,
                !.file_size_bytes = file_size,
                !.processing_time_seconds = processing_time,
                !.completed_at = now,
                !.user_agent = ""]

mark_completed(log, total_records, file_size, processing_time, now) ==
    [log EXCEPT !.is_successful = TRUE,
                !.total_records = total_records,
                !.file_size_bytes = file_size,
                !.processing_time_seconds = processing_time,
                !.completed_at = now]

\* mark_failed clearing completed_at instead of setting it.
mark_failed_reopening(log, error_message, now) ==
    [log EXCEPT !.is_successful = FALSE,
                !.error_message = error_message,
                !.completed_at = NoTime]

\* mark_failed that leaves completed_at as it is.
mark_failed_without_timestamp(log, error_message, now) ==
    [log EXCEPT !.is_successful = FALSE,
                !.error_message = error_message]

\* mark_failed that leaves is_successful as it is.
mark_failed_keeping_success(log, error_message, now) ==
    [log EXCEPT !.error_message = error_message,
                !.completed_at = now]

mark_failed(log, error_message, now) ==
    [log EXCEPT !.is_successful = FALSE,
                !.error_message = error_message,
                !.completed_at = now]

\* self.save() of a DownloadLog: the row with this primary key is rewritten.
SaveLog(table, log) == [table EXCEPT ![log.id] = log]

---------------------------------------------------------------------------
\* downloads.serializers.HistoricalDownloadSerializer

Formats == {"json", "csv", "xml"}

\* is_valid without validate(): the date range is not looked at.
is_valid_without_date_range(data) ==
    data.format \in Formats \cup {"absent"}

\* ChoiceField(choices, default='json') and validate(): the date range.
is_valid(data) ==
    /\ data.format \in Formats \cup {"absent"}
    /\ ~(/\ data.date_from # NoDate
         /\ data.date_to # NoDate
         /\ data.date_from > data.date_to)

\* validated_data.get('format', 'json')
validated_format(data) == IF data.format = "absent" THEN "json" ELSE data.format

---------------------------------------------------------------------------
\* downloads.views: the query sets.  A QuerySet is lazy: it holds its
\* filters, and its rows once it has been iterated (the result cache).

NoQuerySet ==
    [view |-> "", user |-> "", category |-> NoCategory,
     include_private |-> FALSE, evaluated |-> FALSE,
     result_cache |-> EmptyTable]

ErrDate == "'datetime.date' object has no attribute 'utcoffset'"
ErrMultiple == "get() returned more than one Category"
ErrDatabase == "database error"

\* Category.objects.get(name__icontains=text): the rows that match.
CategoryMatches(text) ==
    {c \in DOMAIN Categories : icontains(Categories[c], text)}

\* The base predicate without the status test.
BasePredicate_any_status(user, k) ==
    k.is_public \/ k.author = user

\* Q(is_public=True, status='published') | Q(author=user)
BasePredicate(user, k) ==
    (k.is_public /\ k.status = "published") \/ k.author = user

\* The restriction of include_private = false without the requester's own
\* private posts.
PrivateClause_public_only(user, k) ==
    k.is_public

\* Q(is_public=True) | Q(author=user, is_public=False)
PrivateClause(user, k) ==
    k.is_public \/ (k.author = user /\ ~k.is_public)

\* HistoricalPostsDownloadView._build_queryset.  The serializer hands over
\* datetime.date values, on which timezone.is_naive raises; get() raises
\* when several categories match and DoesNotExist is swallowed.
build_queryset(user, filters) ==
    IF filters.date_from # NoDate \/ filters.date_to # NoDate
    THEN [ok |-> FALSE, error |-> ErrDate, queryset |-> NoQuerySet]
    ELSE IF filters.category # <<>> /\ Cardinality(CategoryMatches(filters.category)) > 1
    THEN [ok |-> FALSE, error |-> ErrMultiple, queryset |-> NoQuerySet]
    ELSE [ok |-> TRUE, error |-> "",
          queryset |->
            [NoQuerySet EXCEPT
               !.view = "historical",
               !.user = user,
               !.category =
                  IF filters.category # <<>> /\ CategoryMatches(filters.category) # {}
                  THEN CHOOSE c \in CategoryMatches(filters.category) : TRUE
                  ELSE NoCategory,
               !.include_private = filters.include_private]]

\* The query set of my-posts built like the base query set of
\* historical-posts.
user_queryset_all_visible(user) ==
    [NoQuerySet EXCEPT !.view = "historical", !.user = user]

\* BlogPost.objects.filter(author=user) of UserPostsDownloadView.post
user_queryset(user) ==
    [NoQuerySet EXCEPT !.view = "user", !.user = user]

\* Whether a post with attributes k is selected by the query set.
Matches(qs, k) ==
    IF qs.view = "historical"
    THEN /\ BasePredicate(qs.user, k)
         /\ (qs.category # NoCategory => k.category = qs.category)
         /\ (~qs.include_private => PrivateClause(qs.user, k))
    ELSE k.author = qs.user

\* The rows the database returns for the query set now.
Select(qs, table) ==
    [k \in PostKinds |-> IF Matches(qs, k) THEN table[k] ELSE 0]

\* QuerySet.count(): the length of the result cache once iterated, a
\* SELECT COUNT(*) before.
QuerySetCount(qs, table) ==
    IF qs.evaluated THEN RecordCount(qs.result_cache)
    ELSE RecordCount(Select(qs, table))

\* Iterating the query set fills its result cache.
Evaluate(qs, table) ==
    [qs EXCEPT !.evaluated = TRUE, !.result_cache = Select(qs, table)]

---------------------------------------------------------------------------
\* downloads.utils

NoContent == [fmt |-> "", total_posts |-> NoCount, rows |-> EmptyTable]

\* total_posts is len(posts_data), the rows iterated.
export_posts_to_json(rows) ==
    [fmt |-> "json", total_posts |-> RecordCount(rows), rows |-> rows]

\* One header row, then one row per post; no count is written.
export_posts_to_csv(rows) ==
    [fmt |-> "csv", total_posts |-> NoCount, rows |-> rows]

\* total_posts is queryset.count(), taken before the rows are iterated.
export_posts_to_xml(count, rows) ==
    [fmt |-> "xml", total_posts |-> count, rows |-> rows]

\* len(content.encode('utf-8')): a wrapper and a fixed size per record.
EncodedLength(content) == 40 + 100 * RecordCount(content.rows)

content_type_of(fmt) ==
    CASE fmt = "csv" -> "text/csv"
      [] fmt = "xml" -> "application/xml"
      [] OTHER -> "application/json"

file_extension_of(fmt) ==
    CASE fmt = "csv" -> "csv"
      [] fmt = "xml" -> "xml"
      [] OTHER -> "json"

NoMeta == [HTTP_X_FORWARDED_FOR |-> <<>>, REMOTE_ADDR |-> "", HTTP_USER_AGENT |-> ""]

get_client_ip(meta) ==
    IF meta.HTTP_X_FORWARDED_FOR # <<>>
    THEN Head(meta.HTTP_X_FORWARDED_FOR)
    ELSE meta.REMOTE_ADDR

---------------------------------------------------------------------------
\* downloads.views.DownloadUsageView: the queries and the statistics.

BytesPerMB == 1048576
ThirtyDays == 2592000

\* DownloadLog.objects.all(): every row, whoever owns it.
LogsOfAnyone(table, user) == DOMAIN table

\* DownloadLog.objects.filter(user=user): the primary keys of the rows.
LogsOf(table, user) == {id \in DOMAIN table : table[id].user = user}

\* order_by('-requested_at').  Primary keys are handed out in the order of
\* creation, so among rows of the same clock value the later one has the
\* larger key.
RECURSIVE OrderByRequestedAtDesc(_, _)
OrderByRequestedAtDesc(table, ids) ==
    IF ids = {} THEN <<>>
    ELSE LET first ==
               CHOOSE i \in ids :
                  \A j \in ids :
                     \/ table[j].requested_at < table[i].requested_at
                     \/ /\ table[j].requested_at = table[i].requested_at
                        /\ j <= i
         IN  <<first>> \o OrderByRequestedAtDesc(table, ids \ {first})

\* The fields of DownloadLogSerializer that are stored columns.
DownloadLogSerializer(log) ==
    [id |-> log.id, request_id |-> log.request_id, user |-> log.user,
     download_type |-> log.download_type, file_format |-> log.file_format,
     total_records |-> log.total_records,
     file_size_bytes |-> log.file_size_bytes,
     processing_time_seconds |-> log.processing_time_seconds,
     is_successful |-> log.is_successful,
     error_message |-> log.error_message,
     requested_at |-> log.requested_at, completed_at |-> log.completed_at]

\* DownloadUsageView.get_queryset, serialized: the caller's rows, newest
\* first.
get_queryset(user, table) ==
    LET ordered == OrderByRequestedAtDesc(table, LogsOf(table, user))
    IN  [i \in 1..Len(ordered) |-> DownloadLogSerializer(table[ordered[i]])]

\* round(n / d) to the nearest integer, ties to the even one.
RoundDiv(n, d) ==
    LET q == n \div d
        r == n % d
    IN  IF 2 * r < d THEN q
        ELSE IF 2 * r > d THEN q + 1
        ELSE IF q % 2 = 0 THEN q ELSE q + 1

NoStats ==
    [total_downloads |-> NoCount, successful_downloads |-> NoCount,
     failed_downloads |-> NoCount, success_rate |-> NoCount,
     total_data_downloaded_mb |-> NoCount,
     recent_downloads_30_days |-> NoCount,
     last_download |-> NoTime, can_download_now |-> FALSE]

\* The statistics with failed_downloads counting only the entries that
\* mark_failed has completed.
get_usage_stats_completed_failures(user, me, table, now) ==
    LET own == LogsOf(table, user)
        successful == {id \in own : table[id].is_successful}
        failed == {id \in own : ~table[id].is_successful
                                    /\ table[id].completed_at # NoTime}
    IN  [NoStats EXCEPT
           !.total_downloads = Cardinality(own),
           !.successful_downloads = Cardinality(successful),
           !.failed_downloads = Cardinality(failed),
           !.success_rate =
              IF Cardinality(own) > 0
              THEN RoundDiv(Cardinality(successful) * 10000, Cardinality(own))
              ELSE 0,
           !.total_data_downloaded_mb =
              RoundDiv(100 * SumOver(successful,
                          [id \in DOMAIN table |-> table[id].file_size_bytes]),
                       BytesPerMB),
           !.recent_downloads_30_days =
              Cardinality({id \in own :
                             table[id].requested_at >= now - ThirtyDays}),
           !.last_download = me.last_download,
           !.can_download_now = can_download(me, now)]

\* DownloadUsageView._get_usage_stats.  success_rate is in hundredths of a
\* percent and total_data_downloaded_mb in hundredths of a megabyte: both
\* are rounded to two decimals.
get_usage_stats(user, me, table, now) ==
    LET own == LogsOf(table, user)
        total_downloads == Cardinality(own)
        successful == {id \in own : table[id].is_successful = TRUE}
        failed == {id \in own : table[id].is_successful = FALSE}
        total_bytes ==
            SumOver(successful,
                    [id \in DOMAIN table |-> table[id].file_size_bytes])
        recent_date == now - ThirtyDays
    IN  [total_downloads |-> total_downloads,
         successful_downloads |-> Cardinality(successful),
         failed_downloads |-> Cardinality(failed),
         success_rate |->
            IF total_downloads > 0
            THEN RoundDiv(Cardinality(successful) * 10000, total_downloads)
            ELSE 0,
         total_data_downloaded_mb |-> RoundDiv(total_bytes * 100, BytesPerMB),
         recent_downloads_30_days |->
            Cardinality({id \in own : table[id].requested_at >= recent_date}),
         last_download |-> me.last_download,
         can_download_now |-> can_download(me, now)]

---------------------------------------------------------------------------
\* What a view hands to the transport layer.
NoResponse ==
    [kind |-> "", status |-> 0, error |-> "", retry_after |-> 0,
     requested_count |-> NoCount, request_id |-> NoLog,
     content |-> NoContent, content_type |-> "",
     disposition |-> "", filename |-> <<>>,
     results |-> <<>>, usage_stats |-> NoStats]

None == [NoResponse EXCEPT !.kind = "None"]

\* The HttpResponse that create_download_response builds.
FileResponse(content, filename, content_type) ==
    [NoResponse EXCEPT !.kind = "HttpResponse", !.status = 200,
                       !.content = content, !.content_type = content_type,
                       !.disposition = "attachment", !.filename = filename]

\* create_download_response builds the response and ends without a return
\* statement: the caller receives None.
create_download_response(content, filename, content_type) ==
    LET response == FileResponse(content, filename, content_type)
    IN  None

---------------------------------------------------------------------------
\* Requests.

IdleReq ==
    [pc |-> "idle", view |-> "", user |-> "", data |-> NoPayload,
     meta |-> NoMeta, me |-> NewUser, start_time |-> NoTime,
     file_format |-> "", log |-> NoLogRow, queryset |-> NoQuerySet,
     guard_count |-> NoCount, content |-> NoContent,
     processing_time |-> 0, error |-> "", response |-> NoResponse]

Payload(fmt, from, to, cat, priv) ==
    [format |-> fmt, date_from |-> from, date_to |-> to,
     category |-> cat, include_private |-> priv]

RequestFormats == Formats \cup {"absent", "pdf"}

\* Request bodies sent to historical-posts: every format without filters,
\* and each filter with the json format.
HistoricalPayloads ==
    {Payload(f, NoDate, NoDate, <<>>, FALSE) : f \in RequestFormats}
    \cup {Payload("json", 2, 1, <<>>, FALSE),
          Payload("json", 1, NoDate, <<>>, FALSE),
          Payload("json", NoDate, NoDate, <<"C">>, FALSE),
          Payload("json", NoDate, NoDate, <<"A", "B">>, FALSE),
          Payload("json", NoDate, NoDate, <<"z">>, FALSE),
          Payload("json", NoDate, NoDate, <<>>, TRUE)}

\* Request bodies sent to my-posts: only the format is read.
UserPayloads ==
    {Payload(f, NoDate, NoDate, <<>>, FALSE) : f \in RequestFormats}

RequestMetas ==
    {[HTTP_X_FORWARDED_FOR |-> <<"198.51.100.7", "10.0.0.1">>,
      REMOTE_ADDR |-> "10.0.0.1", HTTP_USER_AGENT |-> "curl"]}

TooManyMessage == "Too many records requested. Maximum allowed: 10000"
RateLimitMessage == "Download rate limit exceeded. Please wait before requesting another download."
DownloadFailedMessage == "Download failed. Please try again later."
InvalidFormatMessage == "Invalid format. Supported formats: json, csv, xml"
SerializerErrors == "serializer.errors"

ErrorResponse(status, error) ==
    [NoResponse EXCEPT !.kind = "Response", !.status = status, !.error = error]

\* The except clause answering with str(e) instead of the generic message.
except_clause_leaking(r, now) ==
    [r EXCEPT !.pc = "done",
              !.log = mark_failed(r.log, r.error, now),
              !.response = [ErrorResponse(500, r.error)
                              EXCEPT !.request_id = r.log.request_id]]

\* The except clause of both views: the log is marked failed with str(e),
\* the client gets the generic message and the request_id.
except_clause(r, now) ==
    [r EXCEPT !.pc = "done",
              !.log = mark_failed(r.log, r.error, now),
              !.response = [ErrorResponse(500, DownloadFailedMessage)
                              EXCEPT !.request_id = r.log.request_id]]

Raise(r, error) == [r EXCEPT !.pc = "except", !.error = error]

---------------------------------------------------------------------------
\* HistoricalPostsDownloadView.post

\* Authentication loads request.user; the serializer validates the body.
H_Receive(p, payloads) ==
    /\ req[p].pc = "idle"
    /\ \E u \in DOMAIN users, d \in payloads, m \in RequestMetas :
         req' = [req EXCEPT ![p] =
                   [IdleReq EXCEPT
                      !.view = "historical", !.user = u, !.me = users[u],
                      !.data = d, !.meta = m, !.start_time = clock,
                      !.file_format = validated_format(d),
                      !.pc = IF is_valid(d) THEN "rate" ELSE "done",
                      !.response = IF is_valid(d) THEN NoResponse
                                   ELSE ErrorResponse(400, SerializerErrors)]]
    /\ started' = started + 1
    /\ UNCHANGED <<clock, ticks, users, posts, churn, logs, nextLogId>>

\* The rate check reading the stored row instead of request.user.
H_RateCheck_on_stored_row(p) ==
    /\ req[p].pc = "rate"
    /\ req' = [req EXCEPT ![p] =
                 IF can_download(users[@.user], clock)
                 THEN [@ EXCEPT !.pc = "create"]
                 ELSE [@ EXCEPT !.pc = "done",
                                !.response =
                                   [ErrorResponse(429, RateLimitMessage)
                                      EXCEPT !.retry_after = RetryAfter]]]
    /\ UNCHANGED <<clock, ticks, users, posts, churn, logs, nextLogId, started>>

\* if not user.can_download(): user is request.user, the copy of the row
\* that authentication loaded.
H_RateCheck(p) ==
    /\ req[p].pc = "rate"
    /\ req' = [req EXCEPT ![p] =
                 IF can_download(@.me, clock)
                 THEN [@ EXCEPT !.pc = "create"]
                 ELSE [@ EXCEPT !.pc = "done",
                                !.response =
                                   [ErrorResponse(429, RateLimitMessage)
                                      EXCEPT !.retry_after = RetryAfter]]]
    /\ UNCHANGED <<clock, ticks, users, posts, churn, logs, nextLogId, started>>

H_CreateLog(p) ==
    /\ req[p].pc = "create"
    /\ req[p].view = "historical"
    /\ LET r == req[p]
           log == NewLog(nextLogId, r.user, HISTORICAL_POSTS,
                         validated_format(r.data), get_client_ip(r.meta),
                         r.meta.HTTP_USER_AGENT, r.data, clock)
       IN  /\ logs' = logs @@ (nextLogId :> log)
           /\ req' = [req EXCEPT ![p] = [@ EXCEPT !.pc = "build", !.log = log]]
    /\ nextLogId' = nextLogId + 1
    /\ UNCHANGED <<clock, ticks, users, posts, churn, started>>

H_Build(p) ==
    /\ req[p].pc = "build"
    /\ LET r == req[p]
           built == build_queryset(r.user, r.data)
       IN  req' = [req EXCEPT ![p] =
                     IF built.ok
                     THEN [@ EXCEPT !.pc = "guard", !.queryset = built.queryset]
                     ELSE Raise(@, built.error)]
    /\ UNCHANGED <<clock, ticks, users, posts, churn, logs, nextLogId, started>>

\* queryset.count() > max_records; the query may fail.
H_Guard(p) ==
    /\ req[p].pc = "guard"
    /\ \E fault \in BOOLEAN :
         LET n == QuerySetCount(req[p].queryset, posts)
         IN  req' = [req EXCEPT ![p] =
                       IF fault THEN Raise(@, ErrDatabase)
                       ELSE [@ EXCEPT !.guard_count = n,
                                      !.pc = IF n > max_records
                                             THEN "too_large" ELSE "render"]]
    /\ UNCHANGED <<clock, ticks, users, posts, churn, logs, nextLogId, started>>

\* The 413 branch: mark_failed, then queryset.count() again for the body.
H_TooLarge(p) ==
    /\ req[p].pc = "too_large"
    /\ LET r == req[p]
           log == mark_failed(r.log, TooManyMessage, clock)
       IN  /\ logs' = SaveLog(logs, log)
           /\ req' = [req EXCEPT ![p] =
                        [@ EXCEPT !.pc = "done", !.log = log,
                                  !.response =
                                     [ErrorResponse(413, TooManyMessage)
                                        EXCEPT !.requested_count =
                                           QuerySetCount(r.queryset, posts)]]]
    /\ UNCHANGED <<clock, ticks, users, posts, churn, nextLogId, started>>

\* download_log.mark_completed(total_records=queryset.count(), ...); when
\* save() fails the object in memory keeps the assigned fields.
H_Finalize(p) ==
    /\ req[p].pc = "finalize"
    /\ req[p].view = "historical"
    /\ \E fault \in BOOLEAN :
         LET r == req[p]
             log == mark_completed(r.log, QuerySetCount(r.queryset, posts),
                                   EncodedLength(r.content),
                                   r.processing_time, clock)
         IN  /\ logs' = IF fault THEN logs ELSE SaveLog(logs, log)
             /\ req' = [req EXCEPT ![p] =
                          IF fault THEN Raise([@ EXCEPT !.log = log], ErrDatabase)
                          ELSE [@ EXCEPT !.pc = "increment", !.log = log]]
    /\ UNCHANGED <<clock, ticks, users, posts, churn, nextLogId, started>>

\* user.increment_download_count(), then the filename and the response.
H_Increment(p) ==
    /\ req[p].pc = "increment"
    /\ \E fault \in BOOLEAN :
         LET r == req[p]
             me == increment_download_count(r.me, clock)
             filename == <<"historical_posts", clock, file_extension_of(r.file_format)>>
         IN  /\ users' = IF fault THEN users
                         ELSE [users EXCEPT ![r.user] = me]
             /\ req' = [req EXCEPT ![p] =
                          IF fault THEN Raise([@ EXCEPT !.me = me], ErrDatabase)
                          ELSE [@ EXCEPT
                                  !.pc = "done", !.me = me,
                                  !.response = create_download_response(
                                      r.content, filename,
                                      content_type_of(r.file_format))]]
    /\ UNCHANGED <<clock, ticks, posts, churn, logs, nextLogId, started>>

\* The except clause of historical-posts counting the failed attempt as a
\* download.
H_Except_counting(p) ==
    /\ req[p].pc = "except"
    /\ req[p].view = "historical"
    /\ LET r == except_clause(req[p], clock)
       IN  /\ logs' = SaveLog(logs, r.log)
           /\ users' = [users EXCEPT ![r.user] =
                           increment_download_count(users[r.user], clock)]
           /\ req' = [req EXCEPT ![p] = r]
    /\ UNCHANGED <<clock, ticks, posts, churn, nextLogId, started>>

H_Except(p) ==
    /\ req[p].pc = "except"
    /\ req[p].view = "historical"
    /\ LET r == except_clause(req[p], clock)
       IN  /\ logs' = SaveLog(logs, r.log)
           /\ req' = [req EXCEPT ![p] = r]
    /\ UNCHANGED <<clock, ticks, users, posts, churn, nextLogId, started>>

---------------------------------------------------------------------------
\* UserPostsDownloadView.post

\* request.data.get('format', 'json') must be one of the three formats.
U_Receive(p, payloads) ==
    /\ req[p].pc = "idle"
    /\ \E u \in DOMAIN users, d \in payloads, m \in RequestMetas :
         LET file_format == IF d.format = "absent" THEN "json" ELSE d.format
         IN  req' = [req EXCEPT ![p] =
                       [IdleReq EXCEPT
                          !.view = "user", !.user = u, !.me = users[u],
                          !.data = d, !.meta = m, !.start_time = clock,
                          !.file_format = file_format,
                          !.pc = IF file_format \in Formats
                                 THEN "create" ELSE "done",
                          !.response =
                             IF file_format \in Formats THEN NoResponse
                             ELSE ErrorResponse(400, InvalidFormatMessage)]]
    /\ started' = started + 1
    /\ UNCHANGED <<clock, ticks, users, posts, churn, logs, nextLogId>>

\* The log is created, then the (lazy) query set of the user's posts.
U_CreateLog(p) ==
    /\ req[p].pc = "create"
    /\ req[p].view = "user"
    /\ LET r == req[p]
           log == NewLog(nextLogId, r.user, USER_POSTS, r.file_format,
                         get_client_ip(r.meta), r.meta.HTTP_USER_AGENT,
                         [NoPayload EXCEPT !.format = r.file_format], clock)
       IN  /\ logs' = logs @@ (nextLogId :> log)
           /\ req' = [req EXCEPT ![p] =
                        [@ EXCEPT !.pc = "render", !.log = log,
                                  !.queryset = user_queryset(r.user)]]
    /\ nextLogId' = nextLogId + 1
    /\ UNCHANGED <<clock, ticks, users, posts, churn, started>>

\* mark_completed, then the filename and the response; the user's
\* download tracking is not touched.
U_Finalize(p) ==
    /\ req[p].pc = "finalize"
    /\ req[p].view = "user"
    /\ \E fault \in BOOLEAN :
         LET r == req[p]
             log == mark_completed(r.log, QuerySetCount(r.queryset, posts),
                                   EncodedLength(r.content),
                                   r.processing_time, clock)
             filename == <<"my_posts", clock, file_extension_of(r.file_format)>>
         IN  /\ logs' = IF fault THEN logs ELSE SaveLog(logs, log)
             /\ req' = [req EXCEPT ![p] =
                          IF fault THEN Raise([@ EXCEPT !.log = log], ErrDatabase)
                          ELSE [@ EXCEPT
                                  !.pc = "done", !.log = log,
                                  !.response = create_download_response(
                                      r.content, filename,
                                      content_type_of(r.file_format))]]
    /\ UNCHANGED <<clock, ticks, users, posts, churn, nextLogId, started>>

U_Except(p) ==
    /\ req[p].pc = "except"
    /\ req[p].view = "user"
    /\ LET r == except_clause(req[p], clock)
       IN  /\ logs' = SaveLog(logs, r.log)
           /\ req' = [req EXCEPT ![p] = r]
    /\ UNCHANGED <<clock, ticks, users, posts, churn, nextLogId, started>>

---------------------------------------------------------------------------
\* DownloadUsageView.list

\* The answer of the usage view for the user: the serialized rows of
\* get_queryset and the statistics.
usage_response(user, me, table, now) ==
    [NoResponse EXCEPT !.kind = "Response", !.status = 200,
                       !.results = get_queryset(user, table),
                       !.usage_stats = get_usage_stats(user, me, table, now)]

\* The usage view counting the call as a download of the user.
Usage_List_counting(p) ==
    /\ req[p].pc = "idle"
    /\ \E u \in DOMAIN users :
         /\ req' = [req EXCEPT ![p] =
                      [IdleReq EXCEPT
                         !.view = "usage", !.user = u, !.me = users[u],
                         !.start_time = clock, !.pc = "done",
                         !.response = usage_response(u, users[u], logs, clock)]]
         /\ users' = [users EXCEPT ![u] = increment_download_count(@, clock)]
    /\ started' = started + 1
    /\ UNCHANGED <<clock, ticks, posts, churn, logs, nextLogId>>

\* GET usage-stats: authentication loads request.user, the view reads the
\* ledger and answers; nothing is written.
Usage_List(p) ==
    /\ req[p].pc = "idle"
    /\ \E u \in DOMAIN users :
         req' = [req EXCEPT ![p] =
                   [IdleReq EXCEPT
                      !.view = "usage", !.user = u, !.me = users[u],
                      !.start_time = clock, !.pc = "done",
                      !.response = usage_response(u, users[u], logs, clock)]]
    /\ started' = started + 1
    /\ UNCHANGED <<clock, ticks, users, posts, churn, logs, nextLogId>>

---------------------------------------------------------------------------
\* _export_data and DataExporter, as called by both views; afterwards the
\* processing time is taken.

\* export_posts_to_json / export_posts_to_csv: one pass over the query set.
Export_Rows(p) ==
    /\ req[p].pc = "render"
    /\ req[p].file_format # "xml"
    /\ \E fault \in BOOLEAN :
         LET qs == Evaluate(req[p].queryset, posts)
             content == IF req[p].file_format = "csv"
                        THEN export_posts_to_csv(qs.result_cache)
                        ELSE export_posts_to_json(qs.result_cache)
         IN  req' = [req EXCEPT ![p] =
                       IF fault THEN Raise(@, ErrDatabase)
                       ELSE [@ EXCEPT !.pc = "finalize", !.queryset = qs,
                                      !.content = content,
                                      !.processing_time = clock - req[p].start_time]]
    /\ UNCHANGED <<clock, ticks, users, posts, churn, logs, nextLogId, started>>

\* export_posts_to_xml, first query: queryset.count() for the root element.
Export_XmlCount(p) ==
    /\ req[p].pc = "render"
    /\ req[p].file_format = "xml"
    /\ \E fault \in BOOLEAN :
         req' = [req EXCEPT ![p] =
                   IF fault THEN Raise(@, ErrDatabase)
                   ELSE [@ EXCEPT !.pc = "xml_rows",
                                  !.content =
                                     [NoContent EXCEPT
                                        !.fmt = "xml",
                                        !.total_posts =
                                           QuerySetCount(req[p].queryset, posts)]]]
    /\ UNCHANGED <<clock, ticks, users, posts, churn, logs, nextLogId, started>>

\* export_posts_to_xml, second query: the pass over the query set.
Export_XmlRows(p) ==
    /\ req[p].pc = "xml_rows"
    /\ \E fault \in BOOLEAN :
         LET qs == Evaluate(req[p].queryset, posts)
         IN  req' = [req EXCEPT ![p] =
                       IF fault THEN Raise(@, ErrDatabase)
                       ELSE [@ EXCEPT !.pc = "finalize", !.queryset = qs,
                                      !.content = export_posts_to_xml(
                                          req[p].content.total_posts, qs.result_cache),
                                      !.processing_time = clock - req[p].start_time]]
    /\ UNCHANGED <<clock, ticks, users, posts, churn, logs, nextLogId, started>>

\* The transport layer takes what the view returned; the worker is free.
Return(p) ==
    /\ req[p].pc = "done"
    /\ req' = [req EXCEPT ![p] = IdleReq]
    /\ UNCHANGED <<clock, ticks, users, posts, churn, logs, nextLogId, started>>

---------------------------------------------------------------------------
\* The environment: time passes, other requests create and delete posts.

\* The clock is coarse against the duration of a request: it advances
\* between requests.
Tick ==
    /\ ticks < MaxTicks
    /\ \A p \in Procs : req[p].pc = "idle"
    /\ \E d \in TickSteps : clock' = clock + d
    /\ ticks' = ticks + 1
    /\ UNCHANGED <<users, posts, churn, logs, nextLogId, started, req>>

\* Time also passes while a request is being handled: here by a little
\* more than the cooldown at once.
TickDuring ==
    /\ ticks < MaxRaceTicks
    /\ \E p \in Procs : req[p].pc # "idle"
    /\ clock' = clock + CooldownSeconds + 1
    /\ ticks' = ticks + 1
    /\ UNCHANGED <<users, posts, churn, logs, nextLogId, started, req>>

\* Posts that come and go while exports run.
ChurnKinds == {Post("u2", TRUE, "published", NoCategory)}

CreatePost(k) ==
    /\ churn < MaxChurn
    /\ posts' = [posts EXCEPT ![k] = @ + 1]
    /\ churn' = churn + 1
    /\ UNCHANGED <<clock, ticks, users, logs, nextLogId, started, req>>

DeletePost(k) ==
    /\ churn < MaxChurn
    /\ posts[k] > 0
    /\ posts' = [posts EXCEPT ![k] = @ - 1]
    /\ churn' = churn + 1
    /\ UNCHANGED <<clock, ticks, users, logs, nextLogId, started, req>>

\* Deleting an account without the cascade to the ledger.
DeleteUser_keeping_logs(u) ==
    /\ u \in DOMAIN users
    /\ \A p \in Procs : req[p].pc = "idle" \/ req[p].user # u
    /\ users' = [v \in DOMAIN users \ {u} |-> users[v]]
    /\ posts' = [k \in PostKinds |-> IF k.author = u THEN 0 ELSE posts[k]]
    /\ UNCHANGED <<clock, ticks, churn, logs, nextLogId, started, req>>

\* user.delete(): the account goes, and with it (on_delete=CASCADE) its
\* DownloadLog rows and its posts.  An account is deleted while none of
\* its requests is being handled.
DeleteUser(u) ==
    /\ u \in DOMAIN users
    /\ \A p \in Procs : req[p].pc = "idle" \/ req[p].user # u
    /\ users' = [v \in DOMAIN users \ {u} |-> users[v]]
    /\ logs' = [id \in DOMAIN logs \ LogsOf(logs, u) |-> logs[id]]
    /\ posts' = [k \in PostKinds |-> IF k.author = u THEN 0 ELSE posts[k]]
    /\ UNCHANGED <<clock, ticks, churn, nextLogId, started, req>>

---------------------------------------------------------------------------
\* Initial states: new accounts, an empty ledger, and a blog that is either
\* small or large enough for the size guard.

SmallBlog ==
    [k \in PostKinds |->
       IF k \in {Post("u1", TRUE, "published", 1),
                 Post("u1", FALSE, "draft", NoCategory),
                 Post("u2", TRUE, "published", 2),
                 Post("u2", FALSE, "published", 1),
                 Post("u2", TRUE, "draft", NoCategory)}
       THEN 1 ELSE 0]

LargeBlog ==
    [k \in PostKinds |->
       IF k = Post("u2", TRUE, "published", NoCategory) THEN max_records
       ELSE IF k = Post("u1", FALSE, "draft", NoCategory) THEN 1
       ELSE 0]

InitialBlogs == {SmallBlog, LargeBlog}

Init ==
    /\ clock = 0
    /\ ticks = 0
    /\ users = [u \in Users |-> NewUser]
    /\ posts \in InitialBlogs
    /\ churn = 0
    /\ logs = <<>>
    /\ nextLogId = 1
    /\ started = 0
    /\ req = [p \in Procs |-> IdleReq]

\* Every step of the two views after the request was received.
HandlerStep(p) ==
    \/ H_RateCheck(p)
    \/ H_CreateLog(p)
    \/ H_Build(p)
    \/ H_Guard(p)
    \/ H_TooLarge(p)
    \/ H_Finalize(p)
    \/ H_Increment(p)
    \/ H_Except(p)
    \/ U_CreateLog(p)
    \/ U_Finalize(p)
    \/ U_Except(p)
    \/ Export_Rows(p)
    \/ Export_XmlCount(p)
    \/ Export_XmlRows(p)
    \/ Return(p)

\* Requests of every shape, one after the other, while time passes.
Next ==
    \/ \E p \in Workers :
         \/ started < MaxRequests /\ H_Receive(p, HistoricalPayloads)
         \/ started < MaxRequests /\ U_Receive(p, UserPayloads)
         \/ HandlerStep(p)
    \/ Tick

Spec == Init /\ [][Next]_vars

\* Exports without filters while other requests create and delete posts.
ChurnPayloads == {Payload(f, NoDate, NoDate, <<>>, FALSE) : f \in Formats}

NextChurn ==
    \/ \E p \in Workers :
         \/ started < MaxRequests /\ H_Receive(p, ChurnPayloads)
         \/ started < MaxRequests /\ U_Receive(p, ChurnPayloads)
         \/ HandlerStep(p)
    \/ \E k \in ChurnKinds : CreatePost(k) \/ DeletePost(k)

SpecChurn == Init /\ [][NextChurn]_vars

---------------------------------------------------------------------------
\* The query builder on its own: one historical export of any user with any
\* combination of the filters, over any blog of at most two posts.

QueryTexts == {<<>>, <<"C">>, <<"A", "B">>, <<"z">>}

QueryDates == {<<NoDate, NoDate>>, <<1, NoDate>>, <<NoDate, 2>>, <<1, 2>>}

QueryPayloads ==
    {Payload("json", d[1], d[2], c, priv) :
        d \in QueryDates, c \in QueryTexts, priv \in BOOLEAN}

QueryBlogs ==
    {[k \in PostKinds |-> IF k \in {k1, k2} THEN 1 ELSE 0] :
        k1 \in PostKinds, k2 \in PostKinds}

InitQuery ==
    /\ clock = 0
    /\ ticks = 0
    /\ users = [u \in Users |-> NewUser]
    /\ posts \in QueryBlogs
    /\ churn = 0
    /\ logs = <<>>
    /\ nextLogId = 1
    /\ started = 0
    /\ req = [p \in Procs |-> IdleReq]

NextQuery ==
    \E p \in Workers :
        \/ started = 0 /\ H_Receive(p, QueryPayloads)
        \/ H_RateCheck(p)
        \/ H_CreateLog(p)
        \/ H_Build(p)
        \/ H_Guard(p)
        \/ Export_Rows(p)
        \/ H_Finalize(p)
        \/ H_Increment(p)
        \/ H_Except(p)
        \/ Return(p)

SpecQuery == InitQuery /\ [][NextQuery]_vars

---------------------------------------------------------------------------
\* The ledger and its readers: exports in every format, the usage view,
\* and accounts that are deleted, while time passes.

MaxUsageRequests == 3

UsagePayloads == {Payload("json", NoDate, NoDate, <<>>, FALSE)}

NextUsage ==
    \/ \E p \in Workers :
         \/ started < MaxUsageRequests /\ H_Receive(p, UsagePayloads)
         \/ started < MaxUsageRequests /\ U_Receive(p, UsagePayloads)
         \/ started < MaxUsageRequests /\ Usage_List(p)
         \/ H_RateCheck(p)
         \/ H_CreateLog(p)
         \/ H_Build(p)
         \/ H_Guard(p)
         \/ H_TooLarge(p)
         \/ H_Finalize(p)
         \/ H_Increment(p)
         \/ H_Except(p)
         \/ U_CreateLog(p)
         \/ U_Finalize(p)
         \/ U_Except(p)
         \/ Export_Rows(p)
         \/ Return(p)
    \/ Tick
    \/ \E u \in Users : DeleteUser(u)

SpecUsage == Init /\ [][NextUsage]_vars

---------------------------------------------------------------------------
\* Overlapping exports: two workers handle historical-posts requests of
\* one account, and time passes at any moment.

MaxRaceRequests == 3

RacePayloads == {Payload("json", NoDate, NoDate, <<>>, FALSE)}

InitRace ==
    /\ clock = 0
    /\ ticks = 0
    /\ users = [u \in {"u1"} |-> NewUser]
    /\ posts = [k \in PostKinds |-> IF k.author = "u1" THEN SmallBlog[k] ELSE 0]
    /\ churn = 0
    /\ logs = <<>>
    /\ nextLogId = 1
    /\ started = 0
    /\ req = [p \in Procs |-> IdleReq]

NextRace ==
    \/ \E p \in Procs :
         \/ started < MaxRaceRequests /\ H_Receive(p, RacePayloads)
         \/ H_RateCheck(p)
         \/ H_CreateLog(p)
         \/ H_Build(p)
         \/ H_Guard(p)
         \/ Export_Rows(p)
         \/ H_Finalize(p)
         \/ H_Increment(p)
         \/ H_Except(p)
         \/ Return(p)
    \/ TickDuring

SpecRace == InitRace /\ [][NextRace]_vars

---------------------------------------------------------------------------
\* Properties.

\* The ledger row of the request a worker handles, as stored.
Stored(r) == logs[r.log.id]

HasLog(r) == r.log.id # NoLog

\* A 200 file response: an attachment with a filename and a payload.
IsFileResponse(resp) ==
    /\ resp.kind = "HttpResponse"
    /\ resp.status = 200
    /\ resp.disposition = "attachment"
    /\ resp.filename # <<>>
    /\ resp.content # NoContent

\* Structural validation as the specification states it.
FailsValidation(data) ==
    \/ data.format \notin {"json", "csv", "xml", "absent"}
    \/ /\ data.date_from # NoDate
       /\ data.date_to # NoDate
       /\ data.date_from > data.date_to

\* C1: a ledger entry goes from pending to exactly one terminal state: once
\* its completed_at is set, no later step of the request writes it again.
C1_SingleTerminalUpdate ==
    [][\A id \in DOMAIN logs :
          logs[id].completed_at # NoTime => logs'[id] = logs[id]]_vars

\* C2: a request that created a ledger entry and does not end with a valid
\* 200 file response leaves the entry failed and completed.
C2_FailureIsRecorded ==
    \A p \in Procs :
        LET r == req[p] IN
        (r.pc = "done" /\ HasLog(r) /\ ~IsFileResponse(r.response))
            => /\ Stored(r).is_successful = FALSE
               /\ Stored(r).completed_at # NoTime

\* C3: can_download() is true without a prior download, false right after
\* an export has set last_download, and true again only once more than
\* 3600 seconds have passed (false at exactly 3600).
C3_Cooldown ==
    /\ [](\A u \in Users :
            LET last == users[u].last_download
                allowed == can_download(users[u], clock)
            IN  /\ last = NoTime => allowed
                /\ (last # NoTime /\ clock - last <= 3600) => ~allowed
                /\ (last # NoTime /\ clock - last > 3600) => allowed)
    /\ [][\A u \in Users :
            users'[u].last_download # users[u].last_download
               => ~can_download(users'[u], clock')]_vars

\* One user exactly at the boundary (still refused), the other past it.
C3_Witness ==
    \E u, v \in Users :
        /\ users[u].last_download # NoTime
        /\ clock - users[u].last_download = 3600
        /\ ~can_download(users[u], clock)
        /\ users[v].last_download # NoTime
        /\ clock - users[v].last_download > 3600
        /\ can_download(users[v], clock)

\* An earlier export of the same user that ended successful less than 60
\* minutes before this request started.
RecentSuccess(r) ==
    \E id \in DOMAIN logs :
        /\ id # r.log.id
        /\ logs[id].user = r.user
        /\ logs[id].is_successful
        /\ logs[id].completed_at # NoTime
        /\ logs[id].completed_at <= r.start_time
        /\ r.start_time - logs[id].completed_at < 3600

\* C4: on either endpoint, an attempt less than 60 minutes after the same
\* user's previous successful export is rejected with 429 and
\* retry_after = 3600, and nothing is rendered.
C4_SecondExportRejected ==
    \A p \in Procs :
        LET r == req[p] IN
        (r.pc # "idle" /\ ~FailsValidation(r.data) /\ RecentSuccess(r))
            => \/ r.pc = "rate"
               \/ /\ r.pc = "done"
                  /\ r.response.status = 429
                  /\ r.response.retry_after = 3600
                  /\ r.content = NoContent
                  /\ ~HasLog(r)

C6_ReturnsFileResponse ==
    \A p \in Procs :
        LET r == req[p] IN
        (r.pc = "done" /\ r.queryset.evaluated /\ r.error = "")
            => /\ IsFileResponse(r.response)
               /\ r.response.content = r.content

\* C7: the size guard triggers exactly above 10,000 records; then the entry
\* is failed with the message, the answer is 413 with the count that was
\* compared, nothing is rendered and the user's tracking is not advanced.
C7_SizeGuard ==
    \A p \in Procs :
        LET r == req[p] IN
        /\ r.pc = "too_large" => r.guard_count > 10000
        /\ (r.view = "historical"
              /\ r.pc \in {"render", "xml_rows", "finalize", "increment"})
             => (r.guard_count # NoCount /\ r.guard_count <= 10000)
        /\ (r.pc = "done" /\ r.guard_count > 10000)
             => /\ Stored(r).is_successful = FALSE
                /\ Stored(r).completed_at # NoTime
                /\ Stored(r).error_message = TooManyMessage
                /\ r.response.status = 413
                /\ r.response.requested_count = r.guard_count
                /\ r.content = NoContent
                /\ ~r.queryset.evaluated
                /\ users[r.user] = r.me

VisibleTo(user, k) ==
    k.author = user \/ (k.is_public /\ k.status = "published")

\* C9: the record set of a historical export never holds a post of another
\* user that is not public or not published, whatever the filters.
C9_NoForeignPrivatePosts ==
    \A p \in Procs :
        LET r == req[p] IN
        r.queryset.view = "historical"
            => \A k \in PostKinds :
                  /\ Select(r.queryset, posts)[k] > 0 => VisibleTo(r.user, k)
                  /\ r.queryset.result_cache[k] > 0 => VisibleTo(r.user, k)
                  /\ r.content.rows[k] > 0 => VisibleTo(r.user, k)

\* An export was rendered with a category filter and include_private set
\* while the blog held a post of another user that must stay hidden.
C9_Witness ==
    \E p \in Procs :
        LET r == req[p] IN
        /\ r.queryset.evaluated
        /\ r.data.include_private
        /\ r.queryset.category # NoCategory
        /\ RecordCount(r.content.rows) > 0
        /\ \E k \in PostKinds :
              posts[k] > 0 /\ k.author # r.user /\ ~VisibleTo(r.user, k)
                 /\ k.category = r.queryset.category

\* C10: a json export without filters by a user without an earlier
\* successful export returns 200 and leaves one new successful
\* historical_posts entry whose total_records counts the visible posts.
C10_FirstExport ==
    \A p \in Procs :
        LET r == req[p] IN
        (/\ r.pc = "done"
         /\ r.view = "historical"
         /\ r.data = Payload("json", NoDate, NoDate, <<>>, FALSE)
         /\ r.error = ""
         /\ r.guard_count # NoCount
         /\ r.guard_count <= max_records
         /\ ~\E id \in DOMAIN logs :
               id # r.log.id /\ logs[id].user = r.user /\ logs[id].is_successful)
            => /\ r.response.status = 200
               /\ nextLogId = r.log.id + 1
               /\ Stored(r).download_type = "historical_posts"
               /\ Stored(r).is_successful
               /\ Stored(r).total_records =
                     SumOver({k \in PostKinds : VisibleTo(r.user, k)}, posts)

\* C11: completed_at of a ledger entry is null right after creation, and
\* once mark_completed or mark_failed has set it, it is set in every later
\* state.
C11_CompletedAtIsSticky ==
    [][/\ \A id \in DOMAIN logs' \ DOMAIN logs :
             logs'[id].completed_at = NoTime
       /\ \A id \in DOMAIN logs \cap DOMAIN logs' :
             logs[id].completed_at # NoTime
                => logs'[id].completed_at # NoTime]_vars

\* An entry that was written by mark_completed and later by mark_failed,
\* next to an entry that is still pending.
C11_Witness ==
    /\ \E id \in DOMAIN logs :
          /\ logs[id].completed_at # NoTime
          /\ ~logs[id].is_successful
          /\ logs[id].file_size_bytes > 0
          /\ logs[id].error_message = ErrDatabase
    /\ \E id \in DOMAIN logs : logs[id].completed_at = NoTime

\* C12: the step that ends an export (historical or my-posts) with its
\* ledger entry stored as successful leaves the user's download_count one
\* greater than before and last_download not earlier than the request's
\* start; no other request of that user is in flight.
C12_SuccessAdvancesTracking ==
    [][\A p \in Procs :
          LET r == req'[p] IN
          (/\ req[p].pc # "done"
           /\ r.pc = "done"
           /\ r.log.id \in DOMAIN logs'
           /\ logs'[r.log.id].is_successful
           /\ \A q \in Procs \ {p} : req[q].pc = "idle")
             => /\ users'[r.user].download_count
                     = users[r.user].download_count + 1
                /\ users'[r.user].last_download # NoTime
                /\ users'[r.user].last_download >= r.start_time]_vars

\* C13: when a handler reaches its end (success, 413 or caught failure),
\* the ledger entry it created has completed_at set.
C13_NoPendingAtReturn ==
    \A p \in Procs :
        LET r == req[p] IN
        (r.pc = "done" /\ HasLog(r))
            => /\ r.log.id \in DOMAIN logs
               /\ Stored(r).completed_at # NoTime
               /\ Stored(r).completed_at >= Stored(r).requested_at

\* A request answered 413 after an earlier request ended in the except
\* clause: both entries are completed.
C13_Witness ==
    \E p \in Procs :
        LET r == req[p] IN
        /\ r.pc = "done"
        /\ r.response.status = 413
        /\ Stored(r).completed_at # NoTime
        /\ \E id \in DOMAIN logs :
              /\ id # r.log.id
              /\ logs[id].error_message = ErrDatabase
              /\ logs[id].completed_at # NoTime

\* The ledger entries of a user, as a ledger of their own.
OwnLedger(u) ==
    [id \in {i \in DOMAIN logs : logs[i].user = u} |-> logs[id]]

\* C14: in every ledger state and for every user, total_downloads counts
\* the user's entries, successful_downloads those with is_successful,
\* failed_downloads the others (pending ones included), success_rate is 0
\* without entries and else the percentage successful/total to two
\* decimals, and the bytes are summed over successful entries only.
C14_UsageStatistics ==
    /\ \A u \in DOMAIN users :
          LET stats == get_usage_stats(u, users[u], logs, clock)
              mine == DOMAIN OwnLedger(u)
              good == {id \in mine : logs[id].is_successful}
              pending == {id \in mine : logs[id].completed_at = NoTime}
              bad == {id \in mine : /\ logs[id].completed_at # NoTime
                                     /\ ~logs[id].is_successful}
              bytes == SumOver(good, [id \in mine |-> logs[id].file_size_bytes])
              total == Cardinality(mine)
              off_rate == stats.success_rate * total - Cardinality(good) * 10000
              off_mb == stats.total_data_downloaded_mb * 1048576 - bytes * 100
          IN  /\ stats.total_downloads = total
              /\ stats.successful_downloads = Cardinality(good)
              /\ stats.failed_downloads = Cardinality(bad) + Cardinality(pending)
              /\ stats.successful_downloads + stats.failed_downloads
                    = stats.total_downloads
              /\ total = 0 => stats.success_rate = 0
              /\ total > 0 => (2 * off_rate <= total /\ -2 * off_rate <= total)
              /\ (Cardinality(good) = 2 /\ total = 3) => stats.success_rate = 6667
              /\ 2 * off_mb <= 1048576 /\ -2 * off_mb <= 1048576
    /\ \A p \in Procs :
          LET r == req[p] IN
          (r.pc = "done" /\ r.view = "usage" /\ r.user \in DOMAIN users)
             => r.response.usage_stats
                   = get_usage_stats(r.user, users[r.user], logs, clock)

\* A user with two successful entries and a pending one, and another user
\* whose failed entry carries a file size.
C14_Witness ==
    /\ \E u \in DOMAIN users :
          LET mine == DOMAIN OwnLedger(u) IN
          /\ Cardinality(mine) = 3
          /\ Cardinality({id \in mine : logs[id].is_successful}) = 2
          /\ \E id \in mine : logs[id].completed_at = NoTime
          /\ get_usage_stats(u, users[u], logs, clock).success_rate = 6667

\* C15: the rows and the statistics the usage view returns to a user are
\* those computed from that user's own entries and account alone: the
\* entries of other users make no difference.
C15_OnlyOwnData ==
    /\ [](\A u \in DOMAIN users :
            LET answer == usage_response(u, users[u], logs, clock) IN
            /\ answer = usage_response(u, users[u], OwnLedger(u), clock)
            /\ \A i \in DOMAIN answer.results : answer.results[i].user = u
            /\ Len(answer.results) = Cardinality(DOMAIN OwnLedger(u)))
    /\ [][\A p \in Procs :
            (req[p].pc = "idle" /\ req'[p].view = "usage")
               => req'[p].response
                     = usage_response(req'[p].user, users[req'[p].user],
                                      OwnLedger(req'[p].user), clock)]_vars

\* The usage view answered a user who has entries while another user has
\* entries too.
C15_Witness ==
    \E p \in Procs :
        LET r == req[p] IN
        /\ r.pc = "done"
        /\ r.view = "usage"
        /\ Len(r.response.results) > 0
        /\ \E id \in DOMAIN logs : logs[id].user # r.user

\* C16: the usage view writes nothing: the ledger and the users are as
\* before, and can_download_now is what can_download() gives for the
\* caller at that moment.
C16_UsageIsReadOnly ==
    [][\A p \in Procs :
          (req[p].pc = "idle" /\ req'[p].view = "usage")
             => LET u == req'[p].user
                    last == users[u].last_download
                IN  /\ logs' = logs
                    /\ nextLogId' = nextLogId
                    /\ users' = users
                    /\ req'[p].response.status = 200
                    /\ req'[p].response.usage_stats.last_download = last
                    /\ req'[p].response.usage_stats.can_download_now
                          = (last = NoTime \/ clock - last > 3600)]_vars

\* The usage view answered a user inside the cooldown.
C16_Witness ==
    \E p \in Procs :
        LET r == req[p] IN
        /\ r.pc = "done"
        /\ r.view = "usage"
        /\ r.user \in DOMAIN users
        /\ users[r.user].download_count = 1
        /\ users[r.user].last_download # NoTime
        /\ ~r.response.usage_stats.can_download_now
        /\ Len(r.response.results) > 0

\* C17: when an account is deleted its ledger entries go with it and the
\* entries of the other users stay as they are; no entry ever refers to
\* an account that does not exist.
C17_CascadeDelete ==
    /\ [](\A id \in DOMAIN logs : logs[id].user \in DOMAIN users)
    /\ [][\A u \in DOMAIN users \ DOMAIN users' :
            /\ \A id \in DOMAIN logs' : logs'[id].user # u
            /\ \A id \in DOMAIN logs :
                  logs[id].user # u
                     => (id \in DOMAIN logs' /\ logs'[id] = logs[id])]_vars

\* An account with entries was deleted, the entries of the other account
\* are still there.
C17_Witness ==
    /\ DOMAIN users # Users
    /\ DOMAIN logs # {}
    /\ nextLogId > Cardinality(DOMAIN logs) + 1

\* C18: my-posts renders exactly the posts of the requester, whatever their
\* visibility and status, and none of another user; it has no record
\* ceiling and never answers 413.
C18_MyPostsExactAndUnbounded ==
    /\ [](\A p \in Procs :
            LET r == req[p] IN
            r.view = "user"
               => /\ r.pc # "too_large"
                  /\ r.guard_count = NoCount
                  /\ r.response.status # 413
                  /\ \A k \in PostKinds :
                        r.content.rows[k] > 0 => k.author = r.user)
    /\ [][\A p \in Procs :
            (/\ req[p].view = "user"
             /\ ~req[p].queryset.evaluated
             /\ req'[p].queryset.evaluated)
               => req'[p].content.rows
                     = [k \in PostKinds |->
                          IF k.author = req[p].user THEN posts[k] ELSE 0]]_vars

\* A my-posts export of more than 10,000 posts went through, after one of
\* another user that held only a private draft.
C18_Witness ==
    \E p \in Procs :
        LET r == req[p] IN
        /\ r.pc = "done"
        /\ r.view = "user"
        /\ RecordCount(r.content.rows) > max_records
        /\ Stored(r).is_successful
        /\ Stored(r).total_records > max_records
        /\ \E id \in DOMAIN logs :
              /\ logs[id].user # r.user
              /\ logs[id].download_type = USER_POSTS
              /\ logs[id].is_successful
              /\ logs[id].total_records = 1

\* A historical-posts request that was let through by the rate check and
\* has not ended.
PastRateCheck(r) ==
    /\ r.view = "historical"
    /\ r.pc \in {"create", "build", "guard", "too_large", "render",
                  "xml_rows", "finalize", "increment"}

\* A historical-posts request that went through every step without an
\* error.
EndedWell(r) ==
    /\ r.view = "historical"
    /\ r.pc = "done"
    /\ r.error = ""
    /\ r.response.status \notin {400, 413, 429}

\* C19: the rate check decides on the copy of the account the request
\* loaded: a request is let through exactly when that copy is outside the
\* cooldown, whatever has been stored since, and a request that went
\* through every step has a successful entry of its own.  So two
\* overlapping requests of one user can both end successful inside one
\* cooldown window.
C19_RateCheckOnLoadedCopy ==
    \A p \in Procs :
        LET r == req[p]
            last == r.me.last_download
        IN  /\ PastRateCheck(r)
                 => (last = NoTime \/ clock - last > 3600)
            /\ (r.view = "historical" /\ r.pc = "done"
                    /\ r.response.status = 429)
                 => (last # NoTime /\ r.start_time - last <= 3600
                       /\ ~HasLog(r))
            /\ EndedWell(r)
                 => /\ Stored(r).is_successful
                    /\ Stored(r).user = r.user
                    /\ \A q \in Procs \ {p} :
                          EndedWell(req[q]) => req[q].log.id # r.log.id

\* Both workers ended a historical export of the same user successfully at
\* the same time of the clock; the counter went up by one only.
C19_Witness ==
    \E p, q \in Procs :
        /\ p # q
        /\ EndedWell(req[p])
        /\ EndedWell(req[q])
        /\ req[p].user = req[q].user
        /\ Stored(req[p]).is_successful
        /\ Stored(req[q]).is_successful
        /\ Stored(req[p]).completed_at - Stored(req[q]).completed_at < 3600
        /\ Stored(req[q]).completed_at - Stored(req[p]).completed_at < 3600
        /\ users[req[p].user].download_count = 1

\* C20: under every interleaving of exports of one user the stored
\* download_count never decreases and the stored last_download never
\* moves backwards.
C20_CounterIsMonotonic ==
    [][\A u \in DOMAIN users \cap DOMAIN users' :
          /\ users'[u].download_count >= users[u].download_count
          /\ users[u].last_download # NoTime
                => /\ users'[u].last_download # NoTime
                   /\ users'[u].last_download >= users[u].last_download]_vars

\* C21: once every export of a user has finished, the stored download_count
\* is the number of the user's historical_posts entries that are finalized
\* as successful: no increment is lost.
C21_NoLostIncrement ==
    (\A p \in Procs : req[p].pc \in {"idle", "done"})
        => \A u \in DOMAIN users :
              users[u].download_count
                 = Cardinality({id \in DOMAIN logs :
                                  /\ logs[id].user = u
                                  /\ logs[id].download_type = HISTORICAL_POSTS
                                  /\ logs[id].is_successful
                                  /\ logs[id].completed_at # NoTime})

\* How far a request has come in its handler.
Rank(pc) ==
    CASE pc = "idle" -> 0
      [] pc = "rate" -> 1
      [] pc = "create" -> 2
      [] pc = "build" -> 3
      [] pc = "guard" -> 4
      [] pc = "too_large" -> 5
      [] pc = "render" -> 5
      [] pc = "xml_rows" -> 6
      [] pc = "finalize" -> 7
      [] pc = "increment" -> 8
      [] pc = "except" -> 9
      [] OTHER -> 10

\* The entry is created after validation and the rate check passed, and an
\* exporter runs after the size guard passed.
OrderOfSteps ==
    \A p \in Procs :
        LET r == req[p] IN
        r.view = "historical"
           => /\ (r.pc = "create" \/ HasLog(r))
                   => (~FailsValidation(r.data) /\ r.response.status # 429)
              /\ r.pc = "create"
                   => (r.me.last_download = NoTime
                          \/ clock - r.me.last_download > 3600)
              /\ (r.pc \in {"rate", "create"}) => ~HasLog(r)
              /\ (r.content # NoContent \/ r.queryset.evaluated)
                   => (HasLog(r) /\ r.guard_count # NoCount
                          /\ r.guard_count <= 10000)

\* The cooldown is advanced after the entry was finalized as successful,
\* and no step is taken twice.
OrderOfWrites ==
    /\ \A u \in DOMAIN users \cap DOMAIN users' :
          users'[u] # users[u]
             => \E p \in Procs :
                   /\ req[p].user = u
                   /\ HasLog(req[p])
                   /\ logs[req[p].log.id].is_successful
                   /\ logs[req[p].log.id].completed_at # NoTime
    /\ \A p \in Procs :
          (req'[p] # req[p] /\ req[p].pc # "done")
             => Rank(req'[p].pc) > Rank(req[p].pc)

\* Success and Failed are terminal: the outcome of a finalized entry stays.
OutcomeIsTerminal ==
    \A id \in DOMAIN logs \cap DOMAIN logs' :
        logs[id].completed_at # NoTime
           => logs'[id].is_successful = logs[id].is_successful

\* C22: a historical export goes through validation, rate check, creation
\* of the entry, query, size guard, rendering and finalization in this
\* order; the cooldown is advanced after the entry was finalized as
\* successful; Success and Failed are terminal and no step is retried.
C22_AttemptOrder ==
    /\ []OrderOfSteps
    /\ [][OrderOfWrites /\ OutcomeIsTerminal]_vars

\* A request body with a date bound that passes validation.
HasValidDates(data) ==
    /\ data.date_from # NoDate \/ data.date_to # NoDate
    /\ ~FailsValidation(data)

\* C23: a historical export with date_from and/or date_to that passes
\* validation succeeds: it is never answered by the except clause, and when
\* it has ended its entry is successful and its record set was rendered.
C23_DateFilterSucceeds ==
    \A p \in Procs :
        LET r == req[p] IN
        (r.view = "historical" /\ HasValidDates(r.data))
           => /\ r.pc # "except"
              /\ r.error = ""
              /\ (r.pc = "done" /\ r.response.status \notin {413, 429})
                   => /\ r.queryset.evaluated
                      /\ Stored(r).is_successful

\* The categories whose name contains the text, whatever the case.
NamedLike(text) ==
    {c \in DOMAIN Categories : icontains(Categories[c], text)}

\* The record set the category filter is to give: the set without the
\* filter when no category matches, else the posts of a matching category.
WithCategory(qs, text) ==
    LET unfiltered == Select([qs EXCEPT !.category = NoCategory], posts)
    IN  IF NamedLike(text) = {} THEN unfiltered
        ELSE [k \in PostKinds |->
                IF k.category \in NamedLike(text) THEN unfiltered[k] ELSE 0]

\* C24: a category filter never makes a historical export fail, and the
\* record set is the unfiltered one when no category name contains the
\* text and else the posts of the categories whose name contains it, also
\* when two or more names match.
C24_CategoryFilterNeverFails ==
    \A p \in Procs :
        LET r == req[p] IN
        (/\ r.view = "historical"
         /\ r.data.category # <<>>
         /\ r.data.date_from = NoDate
         /\ r.data.date_to = NoDate)
           => /\ r.error # ErrMultiple
              /\ r.queryset.view = "historical"
                   => Select(r.queryset, posts) = WithCategory(r.queryset, r.data.category)
              /\ r.queryset.evaluated
                   => r.content.rows = WithCategory(r.queryset, r.data.category)

\* The requester's own private posts that pass the category filter of qs.
OwnPrivate(qs) ==
    {k \in PostKinds : /\ k.author = qs.user
                       /\ ~k.is_public
                       /\ (qs.category # NoCategory => k.category = qs.category)}

C26_AnnouncedCountIsRenderedCount ==
    \A p \in Procs :
        LET r == req[p] IN
        r.queryset.evaluated
           => /\ r.content.fmt = r.file_format
              /\ r.content.rows = r.queryset.result_cache
              /\ r.content.fmt \in {"json", "xml"}
                   => r.content.total_posts = RecordCount(r.content.rows)

\* The request's ledger entry is stored as successful.
FinalizedSuccessful(r) ==
    /\ HasLog(r)
    /\ r.log.id \in DOMAIN logs
    /\ Stored(r).is_successful

\* C27: for every export finalized as successful, total_records of the
\* ledger entry is the number of records rendered in the payload, and the
\* count the size guard compared with the ceiling is the count exported,
\* also when posts are created or deleted between the guard, the rendering
\* and the finalization.
C27_CountsAgree ==
    \A p \in Procs :
        LET r == req[p] IN
        FinalizedSuccessful(r)
           => /\ Stored(r).total_records = RecordCount(r.content.rows)
              /\ r.view = "historical"
                   => r.guard_count = RecordCount(r.content.rows)

\* The fields of a ledger entry that are set at creation.
Identity(log) ==
    <<log.user, log.download_type, log.file_format, log.filters_applied,
      log.ip_address, log.user_agent, log.request_id, log.requested_at>>

\* C28: from creation to response, no step changes the user,
\* download_type, file_format, filters_applied, ip_address, user_agent,
\* request_id or requested_at of a ledger entry, stored or held by the
\* request, and a step changes no other entry than the one of the request
\* that is being finalized.
C28_FinalizeFrame ==
    [][/\ \A id \in DOMAIN logs :
             /\ id \in DOMAIN logs'
             /\ Identity(logs'[id]) = Identity(logs[id])
             /\ logs'[id] # logs[id]
                  => \E p \in Procs :
                        /\ req[p].log.id = id
                        /\ req[p].pc \in {"finalize", "too_large", "except"}
       /\ \A p \in Procs :
             (HasLog(req[p]) /\ req'[p].pc # "idle")
                => Identity(req'[p].log) = Identity(req[p].log)]_vars

\* A request has ended with its entry finalized and carrying what it was
\* created with, beside an earlier finalized entry.
C28_Witness ==
    \E p \in Procs :
        LET r == req[p] IN
        /\ r.pc = "done"
        /\ HasLog(r)
        /\ Stored(r).completed_at # NoTime
        /\ Identity(Stored(r))
             = <<r.user,
                 IF r.view = "historical" THEN HISTORICAL_POSTS ELSE USER_POSTS,
                 r.file_format, r.data, get_client_ip(r.meta),
                 r.meta.HTTP_USER_AGENT, r.log.id, r.start_time>>
        /\ \E id \in DOMAIN logs :
              /\ id # r.log.id
              /\ logs[id].completed_at # NoTime
              /\ logs[id].is_successful # Stored(r).is_successful

\* is_successful goes with an empty error_message, and an error_message
\* with a failed and completed entry.
Consistent(log) ==
    /\ log.is_successful => log.error_message = ""
    /\ log.error_message # ""
         => ~log.is_successful /\ log.completed_at # NoTime

\* C29: in every reachable state, a ledger entry with is_successful has an
\* empty error_message, and a ledger entry with an error_message is not
\* successful and has completed_at set, whatever calls of mark_completed
\* and mark_failed the orchestrators applied to it; the same holds for the
\* entry a request holds.
C29_OutcomeConsistent ==
    /\ \A id \in DOMAIN logs : Consistent(logs[id])
    /\ \A p \in Procs : Consistent(req[p].log)

\* An entry that mark_completed and then mark_failed were applied to.
C29_Witness ==
    \E id \in DOMAIN logs :
        /\ logs[id].error_message # ""
        /\ logs[id].file_size_bytes > 0
        /\ ~logs[id].is_successful

\* The request ended without an export: a validation error, a rate-limit
\* denial, a 413 or a caught failure.
EndedFailed(r) ==
    /\ r.pc = "done"
    /\ r.response.status \in {400, 413, 429, 500}

\* C30: last_download and download_count of a user change only in the
\* last step of an export of that user whose ledger entry is finalized as
\* successful and stays so; the step in which a request ends with a
\* validation error, a rate-limit denial, a 413 or a caught failure, and
\* every step of a request that gets there, leaves both fields of every
\* user unchanged.
C30_OnlySuccessCounts ==
    [][/\ users' # users
          => \E p \in Procs :
                /\ req[p].pc = "increment"
                /\ req'[p].pc = "done"
                /\ req'[p].error = ""
                /\ ~EndedFailed(req'[p])
                /\ logs'[req[p].log.id].is_successful
                /\ \A u \in DOMAIN users \ {req[p].user} : users'[u] = users[u]
       /\ \A p \in Procs :
             (req[p].pc # "idle" /\ (EndedFailed(req'[p]) \/ req'[p].error # ""))
                => users' = users]_vars

\* A request ended with a caught failure and a failed entry after an
\* earlier export of the same user was counted; the count is still one.
C30_Witness ==
    \E p \in Procs :
        LET r == req[p] IN
        /\ r.view = "historical"
        /\ r.pc = "done"
        /\ r.response.status = 500
        /\ HasLog(r)
        /\ ~Stored(r).is_successful
        /\ users[r.user].download_count = 1
        /\ users[r.user].last_download < clock

====
